---- MODULE Spec2Model ----
(***************************************************************************)
(* A model of the recording-suggestion engine of the release editor       *)
(* (root/static/scripts/release-editor/recordingAssociation.js).          *)
(*                                                                         *)
(* Entities are referenced by gid: MB.entity returns the cached object of *)
(* a gid, so object identity in the script is equality of gids here.      *)
(* A duration of 0 stands for every falsy duration (null, undefined, 0).  *)
(* A name is a sequence of one-character strings.                         *)
(***************************************************************************)
EXTENDS Integers, Sequences, FiniteSets, TLC

VARIABLES
    release,      \* gid of the selected release group, or Null
    pool,         \* releaseGroupRecordings(): Undefined or a sequence
    loading,      \* releaseGroupRecordings.loading: Null or the subscribed track
    loads,        \* the getReleaseGroupRecordings call chains started so far
    tracks,       \* the tracks of the release being edited
    requests,     \* the suggestion-search requests issued so far
    timers,       \* per track, the pending setTimeout(searchTrackArtistRecordings)
    noAppearsOn,  \* gids of cached entities that have no appearsOn yet
    failures,     \* failed suggestion searches so far
    fetchFailures, \* failed page fetches so far
    edits,        \* number of field edits so far
    last,         \* what the last handler did (history)
    waiters,      \* tracks that asked for suggestions while the pool was loading
    pTrack,       \* ranker: the target track
    pCands,       \* ranker: the candidate sequence, or Undefined
    pOut,         \* ranker: the result of matchAgainstRecordings
    pPub,         \* ranker: the list setSuggestedRecordings publishes
    pc,           \* ranker: position
    hTrack,       \* autocomplete: the track the hook was made for
    hArgs,        \* autocomplete: the request the widget hands to the hook
    hCount,       \* autocomplete: the total the backend holds for the query
    hSent,        \* autocomplete: the request the hook returns
    hOut,         \* autocomplete: what args.success receives
    hpc,          \* autocomplete: position
    date,         \* partial date: the reducer's state (sub-fields, errors)
    dLast,        \* partial date: the last action and the state before it
    mDest,        \* merge: the destination array as handed in
    mSrc,         \* merge: the source array
    mOut          \* merge: the destination after mergeSortedArrayInto

vars == <<release, pool, loading, loads, tracks, requests, timers, noAppearsOn,
          failures, fetchFailures, edits, last, waiters, pTrack, pCands, pOut, pPub, pc,
          hTrack, hArgs, hCount, hSent, hOut, hpc,
          date, dLast, mDest, mSrc, mOut>>

engineVars == <<release, pool, loading, loads, tracks, requests, timers,
                noAppearsOn, failures, fetchFailures, edits, last, waiters>>

rankerVars == <<pTrack, pCands, pOut, pPub, pc>>

hookVars == <<hTrack, hArgs, hCount, hSent, hOut, hpc>>

dateVars == <<date, dLast>>

mergeVars == <<mDest, mSrc, mOut>>

\* An absent reference or duration (null, undefined, 0), and an absent or
\* present array.
Null == 0
Undefined == [defined |-> FALSE]
Defined(array) == [defined |-> TRUE, value |-> array]

(***************************************************************************)
(* Bounds of the model.                                                    *)
(***************************************************************************)
MaxCands == 3        \* longest candidate sequence handed to the ranker
MaxRequests == 3     \* suggestion searches issued in one behaviour
MaxFailures == 1     \* failed suggestion searches in one behaviour
MaxFetchFailures == 2  \* failed page fetches in one behaviour
MaxEdits == 2        \* field edits in one behaviour
MaxLoads == 1        \* release-group selections in one behaviour
MaxSwitches == 2     \* release-group selections when the selection changes
MaxCount == 250      \* largest total a release group reports

(***************************************************************************)
(* Program constants.                                                      *)
(***************************************************************************)
MAX_LENGTH_DIFFERENCE == 10000
PageSize == 100

Min(a, b) == IF a < b THEN a ELSE b
Max(a, b) == IF a < b THEN b ELSE a
Abs(a) == IF a < 0 THEN 0 - a ELSE a
Range(s) == {s[i] : i \in DOMAIN s}
IsNull(x) == x = Null
IsUndefined(x) == ~x.defined

(***************************************************************************)
(* Names.                                                                  *)
(***************************************************************************)
NameEmpty == <<>>
NameIntro == <<"a", "b", "c", "d">>
NameIntra == <<"a", "b", "c", "e">>
NameIntroLive == <<"a", "b", "c", "d", " ", "(", "x", ")">>
NameIntroTwo == <<"a", "b", "c", "d", "(", "x", ")", " ", "(", "y", ")", " ">>
NameOther == <<"x", "y", "y", "x">>
NameParen == <<"x", "y", "y", "x", " ", "(", ")">>

\* s is a run of groups "(" [^)]+ ")" " "? that ends where s ends.
RECURSIVE IsETIGroups(_)
IsETIGroups(s) ==
    IF s = <<>> THEN TRUE
    ELSE IF s[1] # "(" THEN FALSE
    ELSE LET closes == {j \in 2..Len(s) : s[j] = ")"}
         IN  IF closes = {} THEN FALSE
             ELSE LET j == CHOOSE k \in closes : \A m \in closes : k <= m
                      rest == SubSeq(s, j + 1, Len(s))
                  IN  /\ j >= 3
                      /\ \/ IsETIGroups(rest)
                         \/ /\ rest # <<>>
                            /\ rest[1] = " "
                            /\ IsETIGroups(Tail(rest))

\* name.replace(etiRegex, ""): the leftmost match of /(\([^)]+\) ?)*$/ is
\* the longest suffix that is a run of groups; it is removed.
StripETIByRegex(name) ==
    LET starts == {i \in 1..(Len(name) + 1) :
                       IsETIGroups(SubSeq(name, i, Len(name)))}
        first == CHOOSE i \in starts : \A k \in starts : i <= k
    IN  SubSeq(name, 1, first - 1)

\* Leading and trailing blanks are dropped before names are compared.
RECURSIVE TrimName(_)
TrimName(s) ==
    IF s = <<>> THEN s
    ELSE IF s[1] = " " THEN TrimName(Tail(s))
    ELSE IF s[Len(s)] = " " THEN TrimName(SubSeq(s, 1, Len(s) - 1))
    ELSE s

\* The edit distance of a and b, row by row: row holds the distances of
\* the first i characters of a to the first 0, 1, ... characters of b.
RECURSIVE LevenshteinRow(_, _, _, _)
LevenshteinRow(prev, c, b, row) ==
    IF Len(row) = Len(b) + 1 THEN row
    ELSE LET j == Len(row)
         IN  LevenshteinRow(prev, c, b,
                 Append(row, Min(Min(prev[j + 1] + 1, row[j] + 1),
                                 prev[j] + (IF c = b[j] THEN 0 ELSE 1))))

RECURSIVE LevenshteinRows(_, _, _, _)
LevenshteinRows(a, b, i, prev) ==
    IF i > Len(a) THEN prev[Len(b) + 1]
    ELSE LevenshteinRows(a, b, i + 1,
                         LevenshteinRow(prev, a[i], b, <<prev[1] + 1>>))

Levenshtein(a, b) ==
    LevenshteinRows(a, b, 1, [j \in 1..(Len(b) + 1) |-> j - 1])

\* The names the catalogue and the tracks use, as given and stripped.
GivenNames ==
    {NameEmpty, NameIntro, NameIntra, NameIntroLive, NameIntroTwo, NameOther,
     NameParen}
\* The replacement over the given names, computed once.
StripETITable == {<<n, StripETIByRegex(n)>> : n \in GivenNames}

StripETI(name) ==
    IF name \in GivenNames
        THEN (CHOOSE q \in StripETITable : q[1] = name)[2]
        ELSE StripETIByRegex(name)

NameUniverse == GivenNames \cup {StripETI(n) : n \in GivenNames}

\* utils.similarNames: identical names match; otherwise the edit distance of
\* the trimmed names is at most a quarter of the longer one.
SimilarByDistance(a, b) ==
    \/ a = b
    \/ LET x == TrimName(a)
           y == TrimName(b)
       IN  /\ Max(Len(x), Len(y)) > 0
           /\ 4 * Levenshtein(x, y) <= Max(Len(x), Len(y))

\* The relation over the name universe, computed once.
SimilarNameTable ==
    {<<p[1], p[2], SimilarByDistance(p[1], p[2])>> :
        p \in NameUniverse \X NameUniverse}

SimilarNames(a, b) ==
    IF a \in NameUniverse /\ b \in NameUniverse
        THEN <<a, b, TRUE>> \in SimilarNameTable
        ELSE SimilarByDistance(a, b)

\* utils.similarLengths: an absent duration never disqualifies.
SimilarLengths(a, b) ==
    \/ a = 0
    \/ b = 0
    \/ Abs(a - b) <= MAX_LENGTH_DIFFERENCE

(***************************************************************************)
(* uniqBy(array, func), with func the releaseGroupGID of an appearance.    *)
(***************************************************************************)
RECURSIVE UniqByReleaseGroup(_, _, _)
UniqByReleaseGroup(array, seenKeys, result) ==
    IF array = <<>> THEN result
    ELSE LET item == Head(array)
             key == item.releaseGroupGID
         IN  IF key \in seenKeys
                 THEN UniqByReleaseGroup(Tail(array), seenKeys, result)
                 ELSE UniqByReleaseGroup(Tail(array), seenKeys \cup {key},
                                         Append(result, item))

\* The appearsOn part of cleanRecordingData: one appearance per release,
\* deduplicated by release group.
AppearsOnOf(data) ==
    UniqByReleaseGroup(
        [i \in 1..Len(data.releases) |->
            [gid |-> data.releases[i].id,
             releaseGroupGID |-> data.releases[i].rg]],
        {}, <<>>)

\* cleanRecordingData(data), without its write to the entity cache.
CleanRecordingData(data) ==
    [gid |-> data.gid, name |-> data.name, length |-> data.length,
     appearsOn |-> Defined(AppearsOnOf(data))]

\* appearsOn?.results.length ?? 0
AppearsOnCount(r) ==
    IF IsUndefined(r.appearsOn) THEN 0 ELSE Len(r.appearsOn.value)

(***************************************************************************)
(* matchAgainstRecordings.                                                 *)
(***************************************************************************)
GetLengthDifferenceTrackFirst(trackLength, recording) ==
    IF trackLength = 0 THEN MAX_LENGTH_DIFFERENCE
    ELSE IF recording.length = 0 THEN MAX_LENGTH_DIFFERENCE + 1
    ELSE Abs(trackLength - recording.length)

GetLengthDifference(trackLength, recording) ==
    IF recording.length = 0 THEN MAX_LENGTH_DIFFERENCE + 1
    ELSE IF trackLength = 0 THEN MAX_LENGTH_DIFFERENCE
    ELSE Abs(trackLength - recording.length)

\* The filter callback.
RecordingMatchesNoETI(trackName, trackLength, recording) ==
    /\ SimilarLengths(trackLength, recording.length)
    /\ SimilarNames(trackName, recording.name)

RecordingMatches(trackName, trackLength, recording) ==
    IF ~SimilarLengths(trackLength, recording.length) THEN FALSE
    ELSE IF SimilarNames(trackName, recording.name) THEN TRUE
    ELSE IF SimilarNames(trackName, StripETI(recording.name)) THEN TRUE
    ELSE FALSE

\* The sort callback: negative when r1 goes first.
CompareRecordingsByLengthOnly(trackLength, r1, r2) ==
    GetLengthDifference(trackLength, r1) - GetLengthDifference(trackLength, r2)

CompareRecordings(trackLength, r1, r2) ==
    IF AppearsOnCount(r2) - AppearsOnCount(r1) # 0
        THEN AppearsOnCount(r2) - AppearsOnCount(r1)
        ELSE GetLengthDifference(trackLength, r1) -
             GetLengthDifference(trackLength, r2)

FilterSeq(s, Keep(_)) == SelectSeq(s, Keep)

\* Array.prototype.sort is stable: an insertion sort that moves an element
\* left only past elements that compare strictly greater.
RECURSIVE InsertSorted(_, _, _)
InsertSorted(sorted, x, trackLength) ==
    IF sorted = <<>> THEN <<x>>
    ELSE LET lastR == sorted[Len(sorted)]
         IN  IF CompareRecordings(trackLength, lastR, x) > 0
                 THEN Append(InsertSorted(SubSeq(sorted, 1, Len(sorted) - 1),
                                          x, trackLength), lastR)
                 ELSE Append(sorted, x)

RECURSIVE SortRecordings(_, _)
SortRecordings(s, trackLength) ==
    IF s = <<>> THEN <<>>
    ELSE InsertSorted(SortRecordings(SubSeq(s, 1, Len(s) - 1), trackLength),
                      s[Len(s)], trackLength)

\* MB.entity(match, "recording"): the cached entity of the record's gid.
MBEntity(match) == match.gid

\* The end of matchAgainstRecordings: the entities of the matches, or null
\* when there is none.
MatchedEntities(matches) ==
    IF Len(matches) > 0
        THEN Defined([i \in 1..Len(matches) |-> MBEntity(matches[i])])
        ELSE Undefined

MatchAgainstRecordings(track, recordings) ==
    IF IsUndefined(recordings) THEN Undefined
    ELSE IF Len(recordings.value) = 0 THEN Undefined
    ELSE LET Keep(r) == RecordingMatches(track.name, track.length, r)
         IN  MatchedEntities(SortRecordings(FilterSeq(recordings.value, Keep),
                                            track.length))

(***************************************************************************)
(* setSuggestedRecordings.                                                 *)
(***************************************************************************)
\* [...new Set(array)]: the first occurrence of every element, in order.
RECURSIVE SetSpread(_, _)
SetSpread(array, result) ==
    IF array = <<>> THEN result
    ELSE IF Head(array) \in Range(result)
        THEN SetSpread(Tail(array), result)
        ELSE SetSpread(Tail(array), Append(result, Head(array)))

\* track.hasExistingRecording(): the track is linked to a recording.
HasExistingRecording(track) == ~IsNull(track.recording)

SuggestedRecordingsNoDedup(track, recordings) ==
    IF ~HasExistingRecording(track) /\ ~IsNull(track.saved)
        THEN <<track.saved>> \o recordings
        ELSE recordings

\* recordings || []
OrEmpty(recordings) ==
    IF IsUndefined(recordings) THEN <<>> ELSE recordings.value

\* The list setSuggestedRecordings(track, recordings) writes.
SuggestedRecordings(track, recordings) ==
    LET lastRecording == track.saved
    IN  IF ~HasExistingRecording(track) /\ ~IsNull(lastRecording)
            THEN SetSpread(<<lastRecording>> \o recordings, <<>>)
            ELSE recordings

(***************************************************************************)
(* The backend's catalogue: what the search service holds for each gid.    *)
(***************************************************************************)
Release(id, rg) == [id |-> id, rg |-> rg]

Catalog ==
    <<[gid |-> 1, name |-> NameIntro, length |-> 200000,
       releases |-> <<Release(1, 1), Release(2, 1), Release(3, 2)>>],
      [gid |-> 2, name |-> NameIntra, length |-> 205000,
       releases |-> <<Release(1, 1)>>],
      [gid |-> 3, name |-> NameIntroLive, length |-> 0,
       releases |-> <<Release(2, 1)>>],
      [gid |-> 4, name |-> NameIntro, length |-> 210001,
       releases |-> <<Release(1, 1), Release(4, 3)>>],
      [gid |-> 5, name |-> NameOther, length |-> 200000,
       releases |-> <<Release(4, 3), Release(3, 2)>>],
      [gid |-> 6, name |-> NameIntro, length |-> 195000,
       releases |-> <<Release(3, 2), Release(5, 2)>>],
      [gid |-> 7, name |-> NameIntroTwo, length |-> 205000,
       releases |-> <<Release(3, 2)>>]>>

Gids == DOMAIN Catalog

\* A recording as the script sees it through the entity cache: an entity
\* created from release data has no appearsOn until a search backfills it.
EntityRecord(gid, without) ==
    IF gid \in without
        THEN [CleanRecordingData(Catalog[gid]) EXCEPT !.appearsOn = Undefined]
        ELSE CleanRecordingData(Catalog[gid])

TrackNames == {NameIntro, NameOther, NameEmpty}
TrackLengths == {0, 200000, 215000}

(***************************************************************************)
(* The search service.                                                     *)
(***************************************************************************)
ReleaseGroups == {1, 2, 3}
BigGroupBase == 1000

\* A release group whose backend total is n, with recordings of its own.
BigGroup(n) == BigGroupBase + n
BigRecording(g, i) ==
    [gid |-> BigGroupBase + i, name |-> NameIntro, length |-> 200000,
     releases |-> <<Release(g, g)>>]

\* The recordings the backend holds for the query rgid:g, in its order.
GroupRecordings(g) ==
    IF g >= BigGroupBase
        THEN [i \in 1..(g - BigGroupBase) |-> BigRecording(g, i)]
        ELSE SelectSeq(Catalog,
                       LAMBDA d : \E i \in DOMAIN d.releases : d.releases[i].rg = g)

\* The response to utils.search("recording", rgid:g, limit, offset).
SearchPage(g, limit, offset) ==
    LET all == GroupRecordings(g)
    IN  [recordings |-> SubSeq(all, offset + 1, Min(offset + limit, Len(all))),
         offset |-> offset,
         count |-> Len(all)]

\* The answers the backend may give to a track's suggestion search.
SearchAnswers == {<<>>, <<2, 1>>}

(***************************************************************************)
(* The engine's state as one record, so that a handler can call another.   *)
(* ev collects what the running handler did.                               *)
(***************************************************************************)
NoEvents ==
    [aborted |-> {}, issued |-> {}, published |-> {}, replayed |-> <<>>,
     scheduled |-> 0, registered |-> {}, poolWritten |-> FALSE]

World ==
    [pool |-> pool, loading |-> loading, tracks |-> tracks,
     requests |-> requests, timers |-> timers, noAppearsOn |-> noAppearsOn,
     waiters |-> waiters, ev |-> NoEvents]

\* The write to MB.entityCache in cleanRecordingData: a cached entity
\* without appearsOn receives it.
CleanAll(w, recordings) ==
    [w EXCEPT !.noAppearsOn = @ \ {recordings[i].gid : i \in DOMAIN recordings}]

CleanedData(recordings) ==
    [i \in DOMAIN recordings |-> CleanRecordingData(recordings[i])]

SetSuggestedRecordingsAccumulate(w, t, recordings) ==
    [w EXCEPT !.tracks[t].suggestedRecordings =
                  @ \o SuggestedRecordings(w.tracks[t], recordings),
              !.ev.published = @ \cup {t}]

SetSuggestedRecordings(w, t, recordings) ==
    [w EXCEPT !.tracks[t].suggestedRecordings =
                  SuggestedRecordings(w.tracks[t], recordings),
              !.ev.published = @ \cup {t}]

\* recordingQuery(track, name): the title, and the duration range when the
\* track has a duration.
RecordingQuery(track, name) ==
    [recording |-> name,
     dur |-> IF track.length # 0
                 THEN <<track.length - MAX_LENGTH_DIFFERENCE,
                        track.length + MAX_LENGTH_DIFFERENCE>>
                 ELSE <<>>]

\* A request just issued. edited and superseded are history: a field of the
\* track changed while the request was in flight, and after that change
\* and the watcher findRecordingSuggestions ran and left it in flight.
NewRequest(t, query) ==
    [track |-> t, status |-> "inflight", query |-> query,
     edited |-> FALSE, superseded |-> FALSE]

\* The .fail callback of a suggestion search.
SearchFailedAlwaysRetry(w, t, textStatus) ==
    [w EXCEPT !.timers[t] = @ + 1, !.ev.scheduled = @ + 1]

SearchFailedNeverRetry(w, t, textStatus) == w

SearchFailed(w, t, textStatus) ==
    IF textStatus # "abort"
        THEN [w EXCEPT !.timers[t] = @ + 1, !.ev.scheduled = @ + 1]
        ELSE w

\* The .done callback of a suggestion search.
SearchSucceededOnlyWithMatches(w, t, data) ==
    LET w1 == CleanAll(w, data)
        recordings == MatchAgainstRecordings(w1.tracks[t],
                                             Defined(CleanedData(data)))
    IN  IF IsUndefined(recordings) THEN w1
        ELSE [SetSuggestedRecordings(w1, t, recordings.value)
                 EXCEPT !.tracks[t].loadingSuggestedRecordings = FALSE]

SearchSucceeded(w, t, data) ==
    LET w1 == CleanAll(w, data)
        recordings == MatchAgainstRecordings(w1.tracks[t],
                                             Defined(CleanedData(data)))
        w2 == SetSuggestedRecordings(w1, t, OrEmpty(recordings))
    IN  [w2 EXCEPT !.tracks[t].loadingSuggestedRecordings = FALSE]

\* jqXHR.abort(): a request in flight ends with textStatus "abort"; one that
\* has ended is left alone.
Abort(w, r) ==
    IF w.requests[r].status = "inflight"
        THEN SearchFailed([w EXCEPT !.requests[r].status = "ended",
                                    !.ev.aborted = @ \cup {r}],
                          w.requests[r].track, "abort")
        ELSE w

SearchWithoutAbort(w, t) ==
    LET r == Len(w.requests) + 1
        track == w.tracks[t]
    IN  [w EXCEPT !.tracks[t].loadingSuggestedRecordings = TRUE,
                  !.tracks[t].recordingRequest = r,
                  !.requests = Append(@, NewRequest(t, RecordingQuery(track, track.name))),
                  !.ev.issued = @ \cup {r}]

SearchTrackArtistRecordings(w, t) ==
    LET w1 == IF w.tracks[t].recordingRequest # Null
                  THEN [Abort(w, w.tracks[t].recordingRequest)
                            EXCEPT !.tracks[t].recordingRequest = Null]
                  ELSE w
        w2 == [w1 EXCEPT !.tracks[t].loadingSuggestedRecordings = TRUE]
        r == Len(w2.requests) + 1
        track == w2.tracks[t]
    IN  [w2 EXCEPT !.tracks[t].recordingRequest = r,
                   !.requests = Append(@, NewRequest(t, RecordingQuery(track, track.name))),
                   !.ev.issued = @ \cup {r}]

\* The entities of a suggestion list, as matchAgainstRecordings reads them.
SuggestedEntities(w, t) ==
    LET list == w.tracks[t].suggestedRecordings
    IN  [i \in DOMAIN list |-> EntityRecord(list[i], w.noAppearsOn)]

\* a || b
OrElseSecondFirst(a, b) == IF ~IsUndefined(b) THEN b ELSE a

OrElse(a, b) == IF ~IsUndefined(a) THEN a ELSE b

\* The end of findRecordingSuggestions: matches are published, and without
\* any a search is started.
PublishOrSearch(w, t, recordings) ==
    IF ~IsUndefined(recordings)
        THEN SetSuggestedRecordings(w, t, recordings.value)
        ELSE SearchTrackArtistRecordings(w, t)

\* The part of findRecordingSuggestions after the pool has been looked up.
MatchOrSearch(w, t, rgRecordings) ==
    PublishOrSearch(w, t,
        OrElse(MatchAgainstRecordings(w.tracks[t], rgRecordings),
               MatchAgainstRecordings(w.tracks[t],
                                      Defined(SuggestedEntities(w, t)))))

FindRecordingSuggestionsNoWait(w, t) ==
    MatchOrSearch(w, t, IF release # Null THEN w.pool ELSE Undefined)

FindRecordingSuggestions(w, t) ==
    IF release # Null /\ IsUndefined(w.pool)
        THEN IF w.loading = Null
                 THEN [w EXCEPT !.loading = t,
                                !.waiters = @ \cup {t},
                                !.ev.registered = @ \cup {t}]
                 ELSE [w EXCEPT !.waiters = @ \cup {t}]
        ELSE MatchOrSearch(w, t, IF release # Null THEN w.pool ELSE Undefined)

\* releaseGroupRecordings(results): the observable is written and its
\* subscriber, if there is one, runs.
PublishPool(w, results) ==
    LET w1 == [w EXCEPT !.pool = Defined(results), !.ev.poolWritten = TRUE]
    IN  IF w1.loading # Null
            THEN FindRecordingSuggestions(
                     [w1 EXCEPT !.loading = Null,
                                !.ev.replayed = Append(@, w1.loading)],
                     w1.loading)
            ELSE w1

\* The world a handler leaves becomes the next state.
Commit(w, op, subject) ==
    /\ Len(w.requests) <= MaxRequests
    /\ pool' = w.pool
    /\ loading' = w.loading
    /\ tracks' = w.tracks
    /\ requests' = w.requests
    /\ timers' = w.timers
    /\ noAppearsOn' = w.noAppearsOn
    /\ waiters' = IF w.ev.poolWritten THEN {} ELSE w.waiters
    /\ last' = [op |-> op, subject |-> subject, ev |-> w.ev,
                waiting |-> waiters]

(***************************************************************************)
(* The tracks.                                                             *)
(***************************************************************************)
Tracks == DOMAIN tracks

\* The values an edit may give to the name, the length and the
\* completeness of the artist credit.
TrackEdits ==
    {<<NameIntra, 200000, TRUE>>, <<NameOther, 215000, TRUE>>,
     <<NameEmpty, 200000, TRUE>>, <<NameIntro, 0, FALSE>>}

NewTrack(name, length, recording) ==
    [name |-> name, length |-> length, completeAC |-> TRUE,
     recording |-> recording, saved |-> recording, original |-> recording,
     savedName |-> name, savedLength |-> length,
     originalName |-> name, originalLength |-> length,
     suggestedRecordings |-> <<>>, loadingSuggestedRecordings |-> FALSE,
     recordingRequest |-> Null, changed |-> FALSE]

\* The editor with the given tracks, no release group selected and nothing
\* requested yet. Entities of saved recordings come from the release and
\* have no appearsOn.
EngineStart(initialTracks) ==
    /\ release = Null
    /\ pool = Undefined
    /\ loading = Null
    /\ loads = <<>>
    /\ tracks = initialTracks
    /\ requests = <<>>
    /\ timers = [t \in DOMAIN initialTracks |-> 0]
    /\ noAppearsOn = {initialTracks[t].saved : t \in DOMAIN initialTracks}
                         \ {Null}
    /\ failures = 0
    /\ fetchFailures = 0
    /\ edits = 0
    /\ last = [op |-> "init", subject |-> 0, ev |-> NoEvents, waiting |-> {}]
    /\ waiters = {}

RankerIdle ==
    /\ pTrack = NewTrack(NameIntro, 0, Null)
    /\ pCands = Undefined
    /\ pOut = Undefined
    /\ pPub = <<>>
    /\ pc = "idle"

HookIdle ==
    /\ hTrack = NewTrack(NameIntro, 0, Null)
    /\ hArgs = [direct |-> TRUE, q |-> NameEmpty, page |-> 1]
    /\ hCount = 0
    /\ hSent = [direct |-> TRUE, q |-> NameEmpty, page |-> 1]
    /\ hOut = <<>>
    /\ hpc = "idle"

\* The partial date input and the array utilities at rest.
DateIdle ==
    /\ date = [year |-> "", month |-> "", day |-> "",
               errors |-> <<>>, pendingErrors |-> <<>>]
    /\ dLast = [action |-> [type |-> "none"]]

MergeIdle ==
    /\ mDest = <<>>
    /\ mSrc = <<>>
    /\ mOut = Undefined

SavedTrack == NewTrack(NameIntro, 200000, 6)
UnsavedTrack == NewTrack(NameIntro, 0, Null)

EngineInit == EngineStart(<<>>)

Init == EngineStart(<<SavedTrack, UnsavedTrack>>) /\ RankerIdle /\ HookIdle /\ DateIdle /\ MergeIdle

(***************************************************************************)
(* getReleaseGroupRecordings.                                              *)
(***************************************************************************)
\* A call getReleaseGroupRecordings(releaseGroup, offset, results) issues
\* one page fetch.
Fetching(load, offset) ==
    [load EXCEPT !.offset = offset, !.status = "fetching",
                 !.fetched = Append(@, offset)]

\* The release group changes and its recordings are requested from offset
\* 0 into a fresh array; without a release group nothing is fetched.
GetReleaseGroupRecordings(g, maxLoads) ==
    /\ Len(loads) < maxLoads
    /\ release' = g
    /\ loads' = IF g = Null THEN loads
                ELSE Append(loads,
                            Fetching([rg |-> g, offset |-> 0, results |-> <<>>,
                                      status |-> "new", fetched |-> <<>>,
                                      failed |-> 0, publishes |-> 0], 0))
    /\ last' = [op |-> "SelectReleaseGroup", subject |-> g, ev |-> NoEvents,
                waiting |-> waiters]
    /\ UNCHANGED <<pool, loading, tracks, requests, timers, noAppearsOn,
                   failures, fetchFailures, edits, waiters>>
    /\ UNCHANGED <<rankerVars, hookVars, dateVars, mergeVars>>

SelectReleaseGroup(g) == GetReleaseGroupRecordings(g, MaxLoads)

\* The .done callback of a page fetch.
FetchDoneNextOffByOne(load, data) ==
    LET results == load.results \o CleanedData(data.recordings)
        countSoFar == data.offset + PageSize
    IN  IF countSoFar <= data.count
            THEN Fetching([load EXCEPT !.results = results], countSoFar)
            ELSE [load EXCEPT !.results = results, !.status = "done",
                              !.publishes = @ + 1]

FetchDoneNext(load, data) ==
    LET results == load.results \o CleanedData(data.recordings)
        countSoFar == data.offset + PageSize
    IN  IF countSoFar < data.count
            THEN Fetching([load EXCEPT !.results = results], countSoFar)
            ELSE [load EXCEPT !.results = results, !.status = "done",
                              !.publishes = @ + 1]

FetchDone(l) ==
    /\ loads[l].status = "fetching"
    /\ \E data \in {SearchPage(loads[l].rg, PageSize, loads[l].offset)} :
       \E next \in {FetchDoneNext(loads[l], data)} :
       \E w1 \in {CleanAll(World, data.recordings)} :
       \E w2 \in {IF next.status = "done"
                      THEN PublishPool(w1, next.results)
                      ELSE w1} :
           /\ loads' = [loads EXCEPT ![l] = next]
           /\ Commit(w2, "FetchDone", l)
    /\ UNCHANGED <<release, failures, fetchFailures, edits>>
    /\ UNCHANGED <<rankerVars, hookVars, dateVars, mergeVars>>

\* The .fail callback of a page fetch: setTimeout(getReleaseGroupRecordings,
\* 5000, releaseGroup, offset, results).
FetchFailedSkipPage(load) ==
    [load EXCEPT !.status = "waiting", !.failed = @ + 1,
                 !.offset = @ + PageSize]

FetchFailedNoRetry(load) ==
    [load EXCEPT !.status = "failed", !.failed = @ + 1]

FetchFailed(load) ==
    [load EXCEPT !.status = "waiting", !.failed = @ + 1]

FetchFail(l) ==
    /\ loads[l].status = "fetching"
    /\ fetchFailures < MaxFetchFailures
    /\ fetchFailures' = fetchFailures + 1
    /\ loads' = [loads EXCEPT ![l] = FetchFailed(loads[l])]
    /\ last' = [op |-> "FetchFail", subject |-> l, ev |-> NoEvents,
                waiting |-> waiters]
    /\ UNCHANGED <<release, pool, loading, tracks, requests, timers,
                   noAppearsOn, failures, edits, waiters>>
    /\ UNCHANGED <<rankerVars, hookVars, dateVars, mergeVars>>

\* The retry timer of a page fetch fires.
FetchRetry(l) ==
    /\ loads[l].status = "waiting"
    /\ loads' = [loads EXCEPT ![l] = Fetching(loads[l], loads[l].offset)]
    /\ last' = [op |-> "FetchRetry", subject |-> l, ev |-> NoEvents,
                waiting |-> waiters]
    /\ UNCHANGED <<release, pool, loading, tracks, requests, timers,
                   noAppearsOn, failures, fetchFailures, edits, waiters>>
    /\ UNCHANGED <<rankerVars, hookVars, dateVars, mergeVars>>

(***************************************************************************)
(* The handlers of a track.                                                *)
(***************************************************************************)
\* recordingAssociation.findRecordingSuggestions(track) is called.
CallFindRecordingSuggestions(t) ==
    /\ LET w == FindRecordingSuggestions(World, t)
           Mark(r) == IF /\ r.track = t
                         /\ r.status = "inflight"
                         /\ r.edited
                         /\ ~tracks[t].changed
                          THEN [r EXCEPT !.superseded = TRUE]
                          ELSE r
       IN  Commit([w EXCEPT !.requests = [i \in DOMAIN @ |-> Mark(@[i])]],
                  "findRecordingSuggestions", t)
    /\ UNCHANGED <<release, loads, failures, fetchFailures, edits>>
    /\ UNCHANGED <<rankerVars, hookVars, dateVars, mergeVars>>

\* A suggestion search succeeds with the answer a.
SearchDone(r, a) ==
    /\ requests[r].status = "inflight"
    /\ LET w == [World EXCEPT !.requests[r].status = "ended"]
           data == [i \in DOMAIN a |-> Catalog[a[i]]]
       IN  Commit(SearchSucceeded(w, requests[r].track, data), "SearchDone", r)
    /\ UNCHANGED <<release, loads, failures, fetchFailures, edits>>
    /\ UNCHANGED <<rankerVars, hookVars, dateVars, mergeVars>>

\* A suggestion search fails (not by abort).
SearchFail(r) ==
    /\ requests[r].status = "inflight"
    /\ failures < MaxFailures
    /\ failures' = failures + 1
    /\ LET w == [World EXCEPT !.requests[r].status = "ended"]
       IN  Commit(SearchFailed(w, requests[r].track, "error"), "SearchFail", r)
    /\ UNCHANGED <<release, loads, fetchFailures, edits>>
    /\ UNCHANGED <<rankerVars, hookVars, dateVars, mergeVars>>

\* A retry timer of a track fires: searchTrackArtistRecordings(track).
SearchRetry(t) ==
    /\ timers[t] > 0
    /\ LET w == [World EXCEPT !.timers[t] = @ - 1]
       IN  Commit(SearchTrackArtistRecordings(w, t), "SearchRetry", t)
    /\ UNCHANGED <<release, loads, failures, fetchFailures, edits>>
    /\ UNCHANGED <<rankerVars, hookVars, dateVars, mergeVars>>

\* The user edits a field of a track; the debounced watcher will run.
EditTrack(t, name, length, completeAC) ==
    /\ edits < MaxEdits
    /\ edits' = edits + 1
    /\ <<name, length, completeAC>> #
           <<tracks[t].name, tracks[t].length, tracks[t].completeAC>>
    /\ tracks' = [tracks EXCEPT ![t].name = name, ![t].length = length,
                                ![t].completeAC = completeAC,
                                ![t].changed = TRUE]
    /\ requests' = [r \in DOMAIN requests |->
                        IF requests[r].track = t /\ requests[r].status = "inflight"
                            THEN [requests[r] EXCEPT !.edited = TRUE]
                            ELSE requests[r]]
    /\ last' = [op |-> "EditTrack", subject |-> t, ev |-> NoEvents,
                waiting |-> waiters]
    /\ UNCHANGED <<release, pool, loading, loads, timers,
                   noAppearsOn, failures, fetchFailures, waiters>>
    /\ UNCHANGED <<rankerVars, hookVars, dateVars, mergeVars>>

\* watchTrackForChanges(track): the recording the track is linked to after
\* the watcher has run.
WatchedRecordingOriginalFirst(track) ==
    LET SimilarTo(propName, propLength) ==
            /\ SimilarNames(propName, track.name)
            /\ SimilarLengths(propLength, track.length)
    IN  IF track.name = NameEmpty \/ ~track.completeAC THEN track.recording
        ELSE IF SimilarTo(track.originalName, track.originalLength)
            THEN track.original
        ELSE IF SimilarTo(track.savedName, track.savedLength) THEN track.saved
        ELSE Null

WatchedRecordingAlwaysRelinks(track) ==
    LET SimilarTo(propName, propLength) ==
            /\ SimilarNames(propName, track.name)
            /\ SimilarLengths(propLength, track.length)
    IN  IF SimilarTo(track.savedName, track.savedLength) THEN track.saved
        ELSE IF SimilarTo(track.originalName, track.originalLength)
            THEN track.original
        ELSE Null

WatchedRecording(track) ==
    LET SimilarTo(propName, propLength) ==
            /\ SimilarNames(propName, track.name)
            /\ SimilarLengths(propLength, track.length)
    IN  IF track.name = NameEmpty \/ ~track.completeAC THEN track.recording
        ELSE IF SimilarTo(track.savedName, track.savedLength) THEN track.saved
        ELSE IF SimilarTo(track.originalName, track.originalLength)
            THEN track.original
        ELSE Null

\* The debounced watcher of a track runs.
WatchTrackForChanges(t) ==
    /\ tracks[t].changed
    /\ tracks' = [tracks EXCEPT ![t].recording = WatchedRecording(tracks[t]),
                                ![t].changed = FALSE]
    /\ last' = [op |-> "watchTrackForChanges", subject |-> t, ev |-> NoEvents,
                waiting |-> waiters]
    /\ UNCHANGED <<release, pool, loading, loads, requests, timers,
                   noAppearsOn, failures, fetchFailures, edits, waiters>>
    /\ UNCHANGED <<rankerVars, hookVars, dateVars, mergeVars>>

\* What happens to the tracks' suggestion searches.
TrackNext ==
    \/ \E t \in Tracks : CallFindRecordingSuggestions(t)
    \/ \E r \in DOMAIN requests, a \in SearchAnswers : SearchDone(r, a)
    \/ \E r \in DOMAIN requests : SearchFail(r)
    \/ \E t \in Tracks : SearchRetry(t)

Next ==
    \/ \E g \in ReleaseGroups \cup {Null} : SelectReleaseGroup(g)
    \/ \E l \in DOMAIN loads : FetchDone(l)
    \/ TrackNext

Spec == Init /\ [][Next]_vars

(***************************************************************************)
(* One track that the user edits while suggestions are computed.           *)
(***************************************************************************)
EditInit == EngineStart(<<SavedTrack>>) /\ RankerIdle /\ HookIdle /\ DateIdle /\ MergeIdle

EditNext ==
    \/ TrackNext
    \/ \E t \in Tracks, e \in TrackEdits : EditTrack(t, e[1], e[2], e[3])
    \/ \E t \in Tracks : WatchTrackForChanges(t)

SpecEdit == EditInit /\ [][EditNext]_vars

(***************************************************************************)
(* One track, linked to its saved recording, without one, or unlinked from *)
(* it by a change of its length, while release groups are selected.        *)
(***************************************************************************)
RelengthedTrack ==
    [SavedTrack EXCEPT !.length = 215000, !.recording = Null]

IdemTracks == {SavedTrack, UnsavedTrack, RelengthedTrack}

IdemInit ==
    (\E track \in IdemTracks : EngineStart(<<track>>)) /\ RankerIdle /\ HookIdle /\ DateIdle /\ MergeIdle

SpecIdem == IdemInit /\ [][Next]_vars

(***************************************************************************)
(* The watcher on its own, for tracks whose saved and original snapshots   *)
(* differ.                                                                 *)
(***************************************************************************)
WatcherNames == {NameEmpty, NameIntro, NameIntra, NameOther}
WatcherSavedNames == {NameIntro, NameOther}
WatcherOriginalNames == {NameIntra, NameOther}
WatcherSavedLengths == {0, 205000}
WatcherOriginalLengths == {195000, 230000}
WatcherLinked == {Null, 2, 6}
WatcherSuggested == {<<>>, <<1, 2>>}

\* A track whose fields have changed since the watcher last ran.
WatcherTracks ==
    {[NewTrack(f.name, f.length, f.recording)
         EXCEPT !.completeAC = f.completeAC,
                !.saved = f.saved, !.original = f.original,
                !.savedName = f.savedName, !.savedLength = f.savedLength,
                !.originalName = f.originalName,
                !.originalLength = f.originalLength,
                !.suggestedRecordings = f.suggestedRecordings,
                !.changed = TRUE] :
        f \in [name : WatcherNames, length : TrackLengths,
               recording : WatcherLinked, completeAC : BOOLEAN,
               saved : {Null, 6}, original : {Null, 1},
               savedName : WatcherSavedNames,
               savedLength : WatcherSavedLengths,
               originalName : WatcherOriginalNames,
               originalLength : WatcherOriginalLengths,
               suggestedRecordings : WatcherSuggested]}

WatcherInit ==
    (\E track \in WatcherTracks : EngineStart(<<track>>)) /\ RankerIdle /\ HookIdle /\ DateIdle /\ MergeIdle

WatcherNext == \E t \in Tracks : WatchTrackForChanges(t)

SpecWatcher == WatcherInit /\ [][WatcherNext]_vars

(***************************************************************************)
(* The fallback search of two tracks when every response and every retry   *)
(* timer is eventually delivered; findRecordingSuggestions is called once  *)
(* for a track and searches fail at most MaxFailures times.                *)
(***************************************************************************)
LiveTracks == {1, 2}

SearchLiveInit ==
    /\ \E first, second \in IdemTracks : EngineStart(<<first, second>>)
    /\ RankerIdle /\ HookIdle /\ DateIdle /\ MergeIdle

SearchLiveNext ==
    \/ \E t \in Tracks :
           /\ \A r \in DOMAIN requests : requests[r].track # t
           /\ CallFindRecordingSuggestions(t)
    \/ \E r \in DOMAIN requests, a \in SearchAnswers : SearchDone(r, a)
    \/ \E r \in DOMAIN requests : SearchFail(r)
    \/ \E t \in Tracks : SearchRetry(t)

SearchFairness ==
    /\ WF_vars(\E r \in DOMAIN requests, a \in SearchAnswers : SearchDone(r, a))
    /\ WF_vars(\E t \in Tracks : SearchRetry(t))

SpecSearchLive == SearchLiveInit /\ [][SearchLiveNext]_vars /\ SearchFairness

(***************************************************************************)
(* The pool load on its own, for release groups of every size.             *)
(***************************************************************************)
PoolCounts ==
    {0, 1, PageSize - 1, PageSize, PageSize + 1, 2 * PageSize, MaxCount}

PoolInit == EngineInit /\ RankerIdle /\ HookIdle /\ DateIdle /\ MergeIdle

PoolNext ==
    \/ \E n \in PoolCounts : SelectReleaseGroup(BigGroup(n))
    \/ \E l \in DOMAIN loads : FetchDone(l)
    \/ \E l \in DOMAIN loads : FetchFail(l)
    \/ \E l \in DOMAIN loads : FetchRetry(l)

SpecPool == PoolInit /\ [][PoolNext]_vars

\* The pool load when every response and every retry timer is eventually
\* delivered; page fetches fail at most MaxFetchFailures times.
PoolFairness ==
    /\ WF_vars(\E l \in DOMAIN loads : FetchDone(l))
    /\ WF_vars(\E l \in DOMAIN loads : FetchRetry(l))

SpecPoolLive == PoolInit /\ [][PoolNext]_vars /\ PoolFairness

(***************************************************************************)
(* The pool while the selected release group changes.                      *)
(***************************************************************************)
SwitchNext ==
    \/ \E g \in ReleaseGroups : GetReleaseGroupRecordings(g, MaxSwitches)
    \/ \E l \in DOMAIN loads : FetchDone(l)
    \/ \E l \in DOMAIN loads : FetchFail(l)
    \/ \E l \in DOMAIN loads : FetchRetry(l)

SpecSwitch == PoolInit /\ [][SwitchNext]_vars

(***************************************************************************)
(* The ranker on its own: matchAgainstRecordings and                       *)
(* setSuggestedRecordings applied to every input within the bounds.        *)
(***************************************************************************)
RankerNames == {NameIntro, NameOther}
RankerUncached == {6}
RankerSaved == {Null, 1, 6}
RankerLinked == {Null, 2}

\* The sequences of distinct gids of length at most n.
RECURSIVE DistinctSeqs(_, _)
DistinctSeqs(S, n) ==
    IF n = 0 THEN {<<>>}
    ELSE LET shorter == DistinctSeqs(S, n - 1)
         IN  shorter \cup
             {Append(p[1], p[2]) :
                 p \in {q \in shorter \X S :
                           Len(q[1]) = n - 1 /\ q[2] \notin Range(q[1])}}

RankerCandidate(g) == EntityRecord(g, RankerUncached)

RankerInputs ==
    {Undefined} \cup
    {Defined([i \in 1..Len(s) |-> RankerCandidate(s[i])]) :
        s \in DistinctSeqs(Gids, MaxCands)}

RankerInit ==
    /\ EngineInit
    /\ pTrack \in [name : RankerNames, length : TrackLengths,
                   recording : RankerLinked, saved : RankerSaved]
    /\ pCands \in RankerInputs
    /\ pOut = Undefined
    /\ pPub = <<>>
    /\ pc = "start"
    /\ HookIdle
    /\ DateIdle
    /\ MergeIdle

RankerMatch ==
    /\ pc = "start"
    /\ pOut' = MatchAgainstRecordings(pTrack, pCands)
    /\ pc' = "matched"
    /\ UNCHANGED <<pTrack, pCands, pPub>>
    /\ UNCHANGED <<engineVars, hookVars, dateVars, mergeVars>>

\* As the search callback publishes: setSuggestedRecordings(track,
\* recordings || []).
RankerPublish ==
    /\ pc = "matched"
    /\ pPub' = SuggestedRecordings(pTrack, OrEmpty(pOut))
    /\ pc' = "published"
    /\ UNCHANGED <<pTrack, pCands, pOut>>
    /\ UNCHANGED <<engineVars, hookVars, dateVars, mergeVars>>

RankerNext == RankerMatch \/ RankerPublish

SpecRanker == RankerInit /\ [][RankerNext]_vars

(***************************************************************************)
(* autocompleteHook: the adapter between the autocomplete widget's pages   *)
(* and the search service's offset and limit.                              *)
(***************************************************************************)
MaxPage == 3
HookLimit == 10

HookNames == {NameEmpty, NameIntro, NameOther}
HookCounts == {0, 1, HookLimit - 1, HookLimit, HookLimit + 1, 2 * HookLimit + 5}

\* The function autocompleteHook(track) returns, applied to args.
AutocompleteHookPageAsOffset(track, args) ==
    IF args.direct THEN args
    ELSE [url |-> "/ws/2/recording",
          query |-> RecordingQuery(track, args.q),
          limit |-> HookLimit,
          offset |-> args.page * HookLimit]

AutocompleteHook(track, args) ==
    IF args.direct THEN args
    ELSE [url |-> "/ws/2/recording",
          query |-> RecordingQuery(track, args.q),
          limit |-> HookLimit,
          offset |-> (args.page - 1) * HookLimit]

\* Math.ceil(count / 10)
HookPages(count) ==
    IF count % HookLimit = 0 THEN count \div HookLimit
    ELSE count \div HookLimit + 1

\* (data.offset / 10) + 1: the whole part and the tenths.
HookCurrent(offset) ==
    [whole |-> offset \div HookLimit + 1, tenths |-> offset % HookLimit]

\* newArgs.success(data): what it hands to args.success.
HookSuccess(data) ==
    Append(CleanedData(data.recordings),
           [current |-> HookCurrent(data.offset),
            pages |-> HookPages(data.count)])

HookInit ==
    /\ EngineInit
    /\ RankerIdle
    /\ DateIdle
    /\ MergeIdle
    /\ hTrack \in {SavedTrack, UnsavedTrack}
    /\ hArgs \in [direct : BOOLEAN, q : HookNames, page : 1..MaxPage]
    /\ hCount \in HookCounts
    /\ hSent = [direct |-> TRUE, q |-> NameEmpty, page |-> 1]
    /\ hOut = <<>>
    /\ hpc = "start"

\* The widget passes its request through the hook.
HookCall ==
    /\ hpc = "start"
    /\ hSent' = AutocompleteHook(hTrack, hArgs)
    /\ hpc' = IF hArgs.direct THEN "direct" ELSE "sent"
    /\ UNCHANGED <<hTrack, hArgs, hCount, hOut>>
    /\ UNCHANGED <<engineVars, rankerVars, dateVars, mergeVars>>

\* The search service answers the request the hook returned.
HookAnswer ==
    /\ hpc = "sent"
    /\ hOut' = HookSuccess(SearchPage(BigGroup(hCount), hSent.limit,
                                      hSent.offset))
    /\ hpc' = "done"
    /\ UNCHANGED <<hTrack, hArgs, hCount, hSent>>
    /\ UNCHANGED <<engineVars, rankerVars, dateVars, mergeVars>>

HookNext == HookCall \/ HookAnswer

SpecHook == HookInit /\ [][HookNext]_vars

(***************************************************************************)
(* Claims about the suggestion searches and the pool.                      *)
(***************************************************************************)
InFlight(t) ==
    {r \in DOMAIN requests :
        requests[r].track = t /\ requests[r].status = "inflight"}

SuggestionsOf(ts) == [t \in DOMAIN ts |-> ts[t].suggestedRecordings]
LoadingFlagsOf(ts) == [t \in DOMAIN ts |-> ts[t].loadingSuggestedRecordings]
LinkedOf(ts) == [t \in DOMAIN ts |-> ts[t].recording]

\* C1: a track never has two suggestion searches in flight, and a search in
\* flight is the one stored in the track's _recordingRequest, the one the
\* next call of searchTrackArtistRecordings aborts.
C1_OneSearchInFlight ==
    \A t \in Tracks :
        /\ Cardinality(InFlight(t)) <= 1
        /\ \A r \in InFlight(t) : tracks[t].recordingRequest = r

\* findRecordingSuggestions started a search while another was in flight.
C1_Witness ==
    /\ last.op = "findRecordingSuggestions"
    /\ last.ev.aborted # {}
    /\ last.ev.issued # {}
    /\ InFlight(last.subject) = last.ev.issued

\* C2: a handler that aborts a search changes no suggestion list, leaves
\* the loading flags as they are and schedules no retry; a retry is
\* scheduled only by a failure that is not an abort.
C2_AbortIsSilent ==
    [][/\ last'.ev.aborted # {} =>
              /\ SuggestionsOf(tracks') = SuggestionsOf(tracks)
              /\ LoadingFlagsOf(tracks') = LoadingFlagsOf(tracks)
              /\ last'.ev.scheduled = 0
              /\ \A t \in Tracks : timers'[t] <= timers[t]
       /\ (last'.ev.scheduled > 0 \/ \E t \in Tracks : timers'[t] > timers[t])
              => last'.op = "SearchFail"]_vars

\* A retry timer fired while a search was in flight and aborted it.
C2_Witness ==
    /\ last.op = "SearchRetry"
    /\ last.ev.aborted # {}
    /\ timers[last.subject] = 0

\* C3: the resolution of a search that a later field change (with its
\* watcher run and findRecordingSuggestions call) found in flight changes
\* nothing of the track and schedules no retry.
C3_StaleSearchIsSilent ==
    [][(/\ last'.op \in {"SearchDone", "SearchFail"}
        /\ requests[last'.subject].superseded)
           => /\ SuggestionsOf(tracks') = SuggestionsOf(tracks)
              /\ LoadingFlagsOf(tracks') = LoadingFlagsOf(tracks)
              /\ LinkedOf(tracks') = LinkedOf(tracks)
              /\ timers' = timers]_vars

\* C4: when the pool is published, findRecordingSuggestions is re-run
\* exactly once for every track that asked while it was loading.
C4_AllWaitersReplayed ==
    (last.op = "FetchDone" /\ last.ev.poolWritten) =>
        /\ Range(last.ev.replayed) = last.waiting
        /\ Len(last.ev.replayed) = Cardinality(last.waiting)

Ceil(a, b) == (a + b - 1) \div b

GroupTotal(g) == Len(GroupRecordings(g))

ExpectedOffsets(n) == [i \in 1..Max(1, Ceil(n, PageSize)) |-> (i - 1) * PageSize]

HasDuplicates(s) == \E i, j \in DOMAIN s : i < j /\ s[i].gid = s[j].gid

\* C5: a load without failures fetches max(1, ceil(N/100)) pages at offsets
\* 0, 100, ..., publishes once, after the last page, the concatenation of
\* the pages (N recordings, none twice); before any load has finished the
\* pool holds no value.
C5_PagedLoad ==
    /\ \A l \in DOMAIN loads :
           /\ loads[l].status # "done" => loads[l].publishes = 0
           /\ (loads[l].status = "done" /\ loads[l].failed = 0) =>
                  /\ loads[l].fetched = ExpectedOffsets(GroupTotal(loads[l].rg))
                  /\ loads[l].publishes = 1
                  /\ loads[l].results = CleanedData(GroupRecordings(loads[l].rg))
                  /\ Len(loads[l].results) = GroupTotal(loads[l].rg)
                  /\ ~HasDuplicates(loads[l].results)
    /\ (\A l \in DOMAIN loads : loads[l].status # "done") => IsUndefined(pool)
    /\ ~IsUndefined(pool) =>
           \E l \in DOMAIN loads :
               loads[l].status = "done" /\ pool.value = loads[l].results

\* A release group of 250 recordings was loaded in three fetches.
C5_Witness ==
    \E l \in DOMAIN loads :
        /\ loads[l].status = "done"
        /\ loads[l].failed = 0
        /\ loads[l].fetched = <<0, PageSize, 2 * PageSize>>
        /\ Len(loads[l].results) > 2 * PageSize
        /\ pool = Defined(loads[l].results)

\* C6: a failed page fetch keeps the accumulator and the offset and leaves
\* one retry pending, the retry fetches that offset again, and whatever
\* fetches failed the published pool is the one a load without failures
\* publishes.
C6_RetrySamePage ==
    /\ [][/\ last'.op = "FetchFail" =>
                 LET l == last'.subject
                 IN  /\ loads'[l].results = loads[l].results
                     /\ loads'[l].offset = loads[l].offset
                     /\ loads'[l].status = "waiting"
                     /\ loads'[l].fetched = loads[l].fetched
          /\ last'.op = "FetchRetry" =>
                 LET l == last'.subject
                 IN  /\ loads'[l].results = loads[l].results
                     /\ loads'[l].status = "fetching"
                     /\ loads'[l].fetched =
                            Append(loads[l].fetched, loads[l].offset)]_vars
    /\ [](\A l \in DOMAIN loads :
             loads[l].status = "done" =>
                 /\ loads[l].results = CleanedData(GroupRecordings(loads[l].rg))
                 /\ ~HasDuplicates(loads[l].results)
                 /\ pool.defined)

\* A load of several pages finished after a page other than the first had
\* failed twice.
C6_Witness ==
    \E l \in DOMAIN loads :
        /\ loads[l].status = "done"
        /\ loads[l].failed >= 2
        /\ Len(loads[l].fetched) = 4
        /\ loads[l].fetched[1] = 0
        /\ loads[l].fetched[4] = PageSize
        /\ pool = Defined(CleanedData(GroupRecordings(loads[l].rg)))

\* C7: findRecordingSuggestions, called while a release group is selected
\* and the pool is not published, starts no pool fetch, issues no search
\* and leaves the suggestion lists unchanged.
C7_WaitsForPool ==
    [][(/\ last'.op = "findRecordingSuggestions"
        /\ release # Null
        /\ IsUndefined(pool))
           => /\ loads' = loads
              /\ requests' = requests
              /\ timers' = timers
              /\ SuggestionsOf(tracks') = SuggestionsOf(tracks)
              /\ last'.ev.issued = {}
              /\ last'.ev.published = {}]_vars

\* A second track asked for suggestions while the pool was loading and the
\* first one was subscribed.
C7_Witness ==
    /\ last.op = "findRecordingSuggestions"
    /\ release # Null
    /\ IsUndefined(pool)
    /\ loading # Null
    /\ loading # last.subject
    /\ Len(loads) = 1
    /\ loads[1].status = "fetching"

(***************************************************************************)
(* Claims about the ranker.                                                *)
(***************************************************************************)
\* Position of the candidate with gid g in the input.
RankerInput == IF IsUndefined(pCands) THEN <<>> ELSE pCands.value
InputIndex(g) == CHOOSE i \in DOMAIN RankerInput : RankerInput[i].gid = g
InputRecord(g) == RankerInput[InputIndex(g)]
RankerResult == IF IsUndefined(pOut) THEN <<>> ELSE pOut.value

\* C8: the ranker's result is ordered by appearsOn count descending, then
\* by length difference ascending; candidates equal on both keys keep
\* their relative order from the input.
C8_RankerOrder ==
    (pc # "start" /\ ~IsUndefined(pOut)) =>
        \A i, j \in DOMAIN RankerResult :
            i < j =>
                LET r1 == InputRecord(RankerResult[i])
                    r2 == InputRecord(RankerResult[j])
                    d1 == GetLengthDifference(pTrack.length, r1)
                    d2 == GetLengthDifference(pTrack.length, r2)
                IN  /\ \/ AppearsOnCount(r1) > AppearsOnCount(r2)
                       \/ /\ AppearsOnCount(r1) = AppearsOnCount(r2)
                          /\ d1 <= d2
                    /\ (AppearsOnCount(r1) = AppearsOnCount(r2) /\ d1 = d2)
                           => InputIndex(RankerResult[i]) < InputIndex(RankerResult[j])

\* A result of three in which the ranker reordered one pair and kept a tie
\* in input order.
C8_Witness ==
    /\ pc # "start"
    /\ ~IsUndefined(pOut)
    /\ Len(RankerResult) = 3
    /\ \E i, j \in DOMAIN RankerResult :
           i < j /\ InputIndex(RankerResult[i]) > InputIndex(RankerResult[j])
    /\ \E i, j \in DOMAIN RankerResult :
           /\ i < j
           /\ AppearsOnCount(InputRecord(RankerResult[i])) =
              AppearsOnCount(InputRecord(RankerResult[j]))
           /\ GetLengthDifference(pTrack.length, InputRecord(RankerResult[i])) =
              GetLengthDifference(pTrack.length, InputRecord(RankerResult[j]))

\* The filter as the claim states it.
PassesFilter(c) ==
    /\ SimilarLengths(pTrack.length, c.length)
    /\ \/ SimilarNames(pTrack.name, c.name)
       \/ SimilarNames(pTrack.name, StripETI(c.name))

\* C9: the ranker returns exactly the candidates that have a similar
\* length and a similar name (as given, or with the trailing parenthetical
\* groups stripped), and null iff there is none or no input.
C9_RankerFilter ==
    (pc # "start") =>
        LET passing == {i \in DOMAIN RankerInput : PassesFilter(RankerInput[i])}
        IN  /\ IsUndefined(pOut) <=> passing = {}
            /\ ~IsUndefined(pOut) =>
                   /\ Len(RankerResult) = Cardinality(passing)
                   /\ Range(RankerResult) = {RankerInput[i].gid : i \in passing}

\* A candidate that passes only with its parenthetical stripped is
\* returned, while another candidate is dropped.
C9_Witness ==
    /\ pc # "start"
    /\ ~IsUndefined(pOut)
    /\ \E i \in DOMAIN RankerInput :
           /\ RankerInput[i].gid \in Range(RankerResult)
           /\ ~SimilarNames(pTrack.name, RankerInput[i].name)
    /\ \E i \in DOMAIN RankerInput : RankerInput[i].gid \notin Range(RankerResult)

\* s without the element x.
Without(s, x) == SelectSeq(s, LAMBDA y : y # x)

\* C10: for a track with no linked recording and a saved recording S, the
\* published list is S followed by the ranker's result without S;
\* otherwise it is the ranker's result.
C10_SavedFirst ==
    (pc = "published") =>
        IF IsNull(pTrack.recording) /\ ~IsNull(pTrack.saved)
            THEN /\ pPub = <<pTrack.saved>> \o Without(RankerResult, pTrack.saved)
                 /\ pPub[1] = pTrack.saved
                 /\ Cardinality({i \in DOMAIN pPub : pPub[i] = pTrack.saved}) = 1
            ELSE pPub = RankerResult

\* The saved recording is in the ranker's result, not in front, and is
\* published first and once.
C10_Witness ==
    /\ pc = "published"
    /\ IsNull(pTrack.recording)
    /\ ~IsNull(pTrack.saved)
    /\ Len(RankerResult) >= 2
    /\ \E i \in 2..Len(RankerResult) : RankerResult[i] = pTrack.saved
    /\ Len(pPub) = Len(RankerResult)

(***************************************************************************)
(* Claims about findRecordingSuggestions and the watcher.                  *)
(***************************************************************************)
\* C11: a call of findRecordingSuggestions that directly follows a call for
\* the same track leaves the track's suggestion list as the first call
\* left it.
C11_Idempotent ==
    [][(/\ last.op = "findRecordingSuggestions"
        /\ last'.op = "findRecordingSuggestions"
        /\ last'.subject = last.subject)
           => SuggestionsOf(tracks') = SuggestionsOf(tracks)]_vars

\* findRecordingSuggestions matched the displayed suggestions of a track
\* without a linked recording and published them behind the saved one.
C11_Witness ==
    /\ last.op = "findRecordingSuggestions"
    /\ last.ev.published = {last.subject}
    /\ last.ev.issued = {}
    /\ release = Null
    /\ IsNull(tracks[last.subject].recording)
    /\ ~IsNull(tracks[last.subject].saved)
    /\ Len(tracks[last.subject].suggestedRecordings) >= 2
    /\ tracks[last.subject].suggestedRecordings[1] = tracks[last.subject].saved


\* The current name and length of a track are similar to a snapshot.
SimilarToSnapshot(track, snapName, snapLength) ==
    /\ SimilarNames(snapName, track.name)
    /\ SimilarLengths(snapLength, track.length)

SimilarToSaved(track) ==
    SimilarToSnapshot(track, track.savedName, track.savedLength)

SimilarToOriginal(track) ==
    SimilarToSnapshot(track, track.originalName, track.originalLength)

\* C12: the watcher of a track with a name and a complete artist credit
\* links the saved recording when name and length are similar to the saved
\* snapshot, else the original recording when they are similar to the
\* original snapshot, else none; it issues no request.
C12_WatcherRelinks ==
    [][\A t \in Tracks :
          (/\ last'.op = "watchTrackForChanges"
           /\ last'.subject = t
           /\ tracks[t].name # NameEmpty
           /\ tracks[t].completeAC)
              => /\ tracks'[t].recording =
                        (IF SimilarToSaved(tracks[t]) THEN tracks[t].saved
                         ELSE IF SimilarToOriginal(tracks[t])
                             THEN tracks[t].original
                         ELSE Null)
                 /\ requests' = requests
                 /\ timers' = timers
                 /\ loads' = loads]_vars

\* The watcher linked the saved recording of a track whose name and length
\* were similar to both snapshots, the recordings of which differ.
C12_Witness ==
    /\ last.op = "watchTrackForChanges"
    /\ \E t \in Tracks :
           /\ tracks[t].name # NameEmpty
           /\ tracks[t].completeAC
           /\ SimilarToSaved(tracks[t])
           /\ SimilarToOriginal(tracks[t])
           /\ tracks[t].saved # tracks[t].original
           /\ ~IsNull(tracks[t].saved)
           /\ ~IsNull(tracks[t].original)
           /\ tracks[t].recording = tracks[t].saved


\* C18: the watcher of a track whose name is empty or whose artist credit
\* is incomplete leaves the linked recording and the suggestion list as
\* they are and issues no request.
C18_WatcherLeavesIncomplete ==
    [][\A t \in Tracks :
          (/\ last'.op = "watchTrackForChanges"
           /\ last'.subject = t
           /\ (tracks[t].name = NameEmpty \/ ~tracks[t].completeAC))
              => /\ tracks'[t].recording = tracks[t].recording
                 /\ tracks'[t].suggestedRecordings =
                        tracks[t].suggestedRecordings
                 /\ requests' = requests
                 /\ timers' = timers
                 /\ loads' = loads]_vars

\* The watcher ran for a track with an incomplete artist credit that is
\* linked to a recording other than the saved one its name and length are
\* similar to, and the link and the suggestions are still there.
C18_Witness ==
    /\ last.op = "watchTrackForChanges"
    /\ \E t \in Tracks :
           /\ ~tracks[t].changed
           /\ ~tracks[t].completeAC
           /\ tracks[t].name # NameEmpty
           /\ SimilarToSaved(tracks[t])
           /\ ~IsNull(tracks[t].saved)
           /\ ~IsNull(tracks[t].recording)
           /\ tracks[t].recording # tracks[t].saved
           /\ tracks[t].suggestedRecordings # <<>>


(***************************************************************************)
(* Claims about autocompleteHook.                                          *)
(***************************************************************************)
\* The recordings of the page p of a total of n, ten to a page.
HookPageOf(n, p) ==
    CleanedData(SubSeq(GroupRecordings(BigGroup(n)),
                       (p - 1) * 10 + 1, Min(p * 10, n)))

\* C13: a request that is not direct is sent with limit 10 and offset
\* (p-1)*10, and the answer is handed on as the cleaned recordings
\* followed by the current page p and ceil(N/10) pages; a direct request
\* is returned unchanged.
C13_HookPaging ==
    /\ hpc = "direct" => hSent = hArgs
    /\ hpc \in {"sent", "done"} =>
           /\ ~hArgs.direct
           /\ hSent.limit = 10
           /\ hSent.offset = (hArgs.page - 1) * 10
    /\ hpc = "done" =>
           /\ Len(hOut) >= 1
           /\ hOut[Len(hOut)] =
                  [current |-> [whole |-> hArgs.page, tenths |-> 0],
                   pages |-> Ceil(hCount, 10)]
           /\ SubSeq(hOut, 1, Len(hOut) - 1) = HookPageOf(hCount, hArgs.page)

\* The third page of 25 recordings was answered: five recordings and the
\* page numbers.
C13_Witness ==
    /\ hpc = "done"
    /\ hArgs.page = 3
    /\ hCount = 25
    /\ Len(hOut) = 6
    /\ hOut[6].pages = 3


(***************************************************************************)
(* Further claims about the pool.                                          *)
(***************************************************************************)
\* C14: a published pool holds the recordings of the selected release
\* group, and only those.
C14_PoolOfSelectedGroup ==
    (release # Null /\ ~IsUndefined(pool)) =>
        pool.value = CleanedData(GroupRecordings(release))


\* C15: a load that has been started always has a request in flight or a
\* retry timer pending until it has published, and the pool is eventually
\* published.
C15_PoolEventuallyReady ==
    /\ [](\A l \in DOMAIN loads :
             \/ loads[l].status = "fetching"
             \/ loads[l].status = "waiting"
             \/ loads[l].status = "done" /\ ~IsUndefined(pool))
    /\ (loads # <<>>) ~> ~IsUndefined(pool)

\* The largest release group was published after page fetches had failed.
C15_Witness ==
    /\ fetchFailures = MaxFetchFailures
    /\ ~IsUndefined(pool)
    /\ Len(pool.value) = MaxCount
    /\ \A l \in DOMAIN loads : loads[l].status = "done"


(***************************************************************************)
(* Further claims about the fallback search.                               *)
(***************************************************************************)
\* C16: a failure that is not an abort leaves one more retry pending for
\* the track; a track that is loading suggestions has a request in flight
\* or a retry pending; and a track that is loading suggestions eventually
\* has a list published by a search and is no longer loading.
C16_SearchEventuallyPublishes ==
    /\ [][last'.op = "SearchFail" =>
              LET t == requests[last'.subject].track
              IN  /\ timers'[t] = timers[t] + 1
                  /\ last'.ev.scheduled = 1]_vars
    /\ [](\A t \in LiveTracks :
             tracks[t].loadingSuggestedRecordings =>
                 InFlight(t) # {} \/ timers[t] > 0)
    /\ \A t \in LiveTracks :
           tracks[t].loadingSuggestedRecordings ~>
               (/\ last.op = "SearchDone"
                /\ last.ev.published = {t}
                /\ ~tracks[t].loadingSuggestedRecordings)

\* A search that was retried after a failure has published the track's
\* suggestions.
C16_Witness ==
    /\ last.op = "SearchDone"
    /\ failures = MaxFailures
    /\ \E t \in Tracks :
           /\ last.ev.published = {t}
           /\ requests[last.subject].track = t
           /\ ~tracks[t].loadingSuggestedRecordings
           /\ timers[t] = 0
           /\ \E r \in 1..(last.subject - 1) : requests[r].track = t


(***************************************************************************)
(* Further claims about findRecordingSuggestions.                          *)
(***************************************************************************)
\* What matchAgainstRecordings finds for the track t in the pool of the
\* selected release group, and in the suggestions the track displays.
MatchInPool(t) ==
    MatchAgainstRecordings(tracks[t], IF release # Null THEN pool ELSE Undefined)

MatchInDisplayed(t) ==
    MatchAgainstRecordings(tracks[t], Defined(SuggestedEntities(World, t)))

\* C17: a call of findRecordingSuggestions that does not wait for the pool
\* publishes the match against the pool when there is one, else the match
\* against the displayed suggestions when there is one, both without
\* issuing a search; it issues a search exactly when there is neither.
C17_SourceOrder ==
    [][\A t \in Tracks :
          (/\ last'.op = "findRecordingSuggestions"
           /\ last'.subject = t
           /\ ~(release # Null /\ IsUndefined(pool)))
              => IF ~IsUndefined(MatchInPool(t))
                     THEN /\ tracks'[t].suggestedRecordings =
                                 SuggestedRecordings(tracks[t],
                                                     MatchInPool(t).value)
                          /\ last'.ev.published = {t}
                          /\ last'.ev.issued = {}
                          /\ requests' = requests
                 ELSE IF ~IsUndefined(MatchInDisplayed(t))
                     THEN /\ tracks'[t].suggestedRecordings =
                                 SuggestedRecordings(tracks[t],
                                                     MatchInDisplayed(t).value)
                          /\ last'.ev.published = {t}
                          /\ last'.ev.issued = {}
                          /\ requests' = requests
                 ELSE /\ Cardinality(last'.ev.issued) = 1
                      /\ Len(requests') = Len(requests) + 1
                      /\ last'.ev.published = {}
                      /\ tracks'[t].suggestedRecordings =
                             tracks[t].suggestedRecordings]_vars

\* With a pool published that holds no match for the track,
\* findRecordingSuggestions published the match against the displayed
\* suggestions and issued no search.
C17_Witness ==
    /\ last.op = "findRecordingSuggestions"
    /\ release # Null
    /\ ~IsUndefined(pool)
    /\ IsUndefined(MatchInPool(last.subject))
    /\ last.ev.published = {last.subject}
    /\ last.ev.issued = {}
    /\ tracks[last.subject].suggestedRecordings # <<>>


\* C19: no search request is issued with an empty title, whether by
\* findRecordingSuggestions or by a retry timer.
C19_NoEmptyTitleQuery ==
    \A r \in DOMAIN requests : requests[r].query.recording # NameEmpty


(***************************************************************************)
(* Further claims about the ranker.                                        *)
(***************************************************************************)
\* Positions i < j of the ranker's result whose candidates appear on
\* equally many releases.
EqualCountPairs ==
    {p \in (DOMAIN RankerResult) \X (DOMAIN RankerResult) :
        /\ p[1] < p[2]
        /\ AppearsOnCount(InputRecord(RankerResult[p[1]])) =
               AppearsOnCount(InputRecord(RankerResult[p[2]]))}

HasLength(g) == InputRecord(g).length # 0

\* Among candidates with equal appearsOn counts none without a duration
\* precedes one with a duration.
NoLengthNeverFirst ==
    \A p \in EqualCountPairs :
        ~(~HasLength(RankerResult[p[1]]) /\ HasLength(RankerResult[p[2]]))

\* C20 as stated: among candidates with equal appearsOn counts none
\* without a duration precedes one with a duration, and for a track without
\* a duration they are all in their input order.
C20_NeutralForEveryCandidate ==
    (pc # "start" /\ ~IsUndefined(pOut)) =>
        /\ NoLengthNeverFirst
        /\ pTrack.length = 0 =>
               \A p \in EqualCountPairs :
                   InputIndex(RankerResult[p[1]]) < InputIndex(RankerResult[p[2]])

\* C20, amended: a candidate without a duration has the difference
\* MAX_LENGTH_DIFFERENCE + 1, which no candidate exceeds, also for a track
\* without a duration; for such a track every candidate with a duration
\* has the difference MAX_LENGTH_DIFFERENCE. Among candidates with equal
\* appearsOn counts none without a duration precedes one with a duration,
\* and for a track without a duration those with a duration are in their
\* input order, as are those without.
C20_NoLengthIsWorst ==
    (pc # "start" /\ ~IsUndefined(pOut)) =>
        /\ \A i \in DOMAIN RankerResult :
               LET r == InputRecord(RankerResult[i])
                   d == GetLengthDifference(pTrack.length, r)
               IN  /\ d <= MAX_LENGTH_DIFFERENCE + 1
                   /\ r.length = 0 => d = MAX_LENGTH_DIFFERENCE + 1
                   /\ (r.length # 0 /\ pTrack.length = 0) =>
                          d = MAX_LENGTH_DIFFERENCE
        /\ NoLengthNeverFirst
        /\ pTrack.length = 0 =>
               \A p \in EqualCountPairs :
                   HasLength(RankerResult[p[1]]) = HasLength(RankerResult[p[2]])
                       => InputIndex(RankerResult[p[1]]) <
                              InputIndex(RankerResult[p[2]])

\* For a track without a duration, a candidate without a duration that
\* came before one with a duration and the same appearsOn count is ranked
\* behind it.
C20_Witness ==
    /\ pc # "start"
    /\ ~IsUndefined(pOut)
    /\ pTrack.length = 0
    /\ \E p \in EqualCountPairs :
           /\ HasLength(RankerResult[p[1]])
           /\ ~HasLength(RankerResult[p[2]])
           /\ InputIndex(RankerResult[p[2]]) < InputIndex(RankerResult[p[1]])


(***************************************************************************)
(* Claims about a search without matches.                                  *)
(***************************************************************************)
\* What matchAgainstRecordings finds for the track t in the answer a.
MatchInAnswer(t, a) ==
    MatchAgainstRecordings(
        tracks[t], Defined(CleanedData([i \in DOMAIN a |-> Catalog[a[i]]])))

\* The search r of the track t is answered by a, and neither the pool, nor
\* the suggestions displayed, nor the answer hold a match for t.
SearchDoneWithoutMatch(r, t, a) ==
    /\ SearchDone(r, a)
    /\ requests[r].track = t
    /\ IsUndefined(MatchInPool(t))
    /\ IsUndefined(MatchInDisplayed(t))
    /\ IsUndefined(MatchInAnswer(t, a))

\* The search callback ended without an error or a retry.
SearchEndedQuietly(t) ==
    /\ ~tracks'[t].loadingSuggestedRecordings
    /\ timers' = timers
    /\ last'.ev.scheduled = 0
    /\ last'.ev.issued = {}
    /\ last'.ev.published = {t}

\* C21 as stated: when neither the pool, nor the displayed suggestions, nor
\* the search hold a match, the list published is empty, the loading flag
\* is cleared and no retry is scheduled.
C21_EmptyWhenNoMatch ==
    [][\A r \in DOMAIN requests, t \in Tracks, a \in SearchAnswers :
          SearchDoneWithoutMatch(r, t, a)
              => /\ tracks'[t].suggestedRecordings = <<>>
                 /\ SearchEndedQuietly(t)]_vars

\* C21, amended: the list published is empty, or holds the saved recording
\* alone when the track has a saved recording and no linked one; the
\* loading flag is cleared and no retry is scheduled.
C21_SavedOrEmptyWhenNoMatch ==
    [][\A r \in DOMAIN requests, t \in Tracks, a \in SearchAnswers :
          SearchDoneWithoutMatch(r, t, a)
              => /\ tracks'[t].suggestedRecordings =
                        (IF /\ IsNull(tracks[t].recording)
                            /\ ~IsNull(tracks[t].saved)
                             THEN <<tracks[t].saved>>
                             ELSE <<>>)
                 /\ SearchEndedQuietly(t)]_vars

\* A search without matches ended for a track that has a saved recording
\* and no linked one: the saved recording is the only suggestion.
C21_Witness ==
    /\ last.op = "SearchDone"
    /\ \E t \in Tracks :
           /\ last.ev.published = {t}
           /\ IsNull(tracks[t].recording)
           /\ ~IsNull(tracks[t].saved)
           /\ tracks[t].suggestedRecordings = <<tracks[t].saved>>
           /\ ~tracks[t].loadingSuggestedRecordings
           /\ timers[t] = 0


(***************************************************************************)
(* Claims about the loading flag.                                          *)
(***************************************************************************)
\* C24: a track with a search in flight or a retry timer pending has its
\* loadingSuggestedRecordings flag set.
C24_LoadingWhilePending ==
    \A t \in Tracks :
        (InFlight(t) # {} \/ timers[t] > 0)
            => tracks[t].loadingSuggestedRecordings


(***************************************************************************)
(* The partial date input: runReducer and validateDate.                    *)
(***************************************************************************)
YearMessage == "The year should have four digits."
InvalidMessage == "The date you've entered is not valid"
ServerMessage == "invalid partial date"

\* What the user can have typed into the three inputs.
YearValues == {"", "99", "2023", "2024"}
MonthValues == {"", "2", "13"}
DayValues == {"", "29", "30"}

NumberOf(value) ==
    CASE value = "99" -> 99
      [] value = "2023" -> 2023
      [] value = "2024" -> 2024
      [] value = "2" -> 2
      [] value = "13" -> 13
      [] value = "29" -> 29
      [] value = "30" -> 30
      [] OTHER -> Null

\* isYearFourDigits: an empty year passes, any other needs four digits.
IsYearFourDigits(year) == year = "" \/ NumberOf(year) \in 1000..9999

IsLeapYear(y) == y % 4 = 0 /\ (y % 100 # 0 \/ y % 400 = 0)

DaysInMonth(year, m) ==
    IF m = 2
        THEN (IF year = "" \/ IsLeapYear(NumberOf(year)) THEN 29 ELSE 28)
        ELSE IF m \in {4, 6, 9, 11} THEN 30 ELSE 31

\* isDateValid: the sub-fields that are filled in name a day of the calendar.
IsDateValid(year, month, day) ==
    /\ (month # "" => NumberOf(month) \in 1..12)
    /\ (day # "" =>
            NumberOf(day) \in
                1..(IF month = "" \/ NumberOf(month) \notin 1..12
                        THEN 31
                        ELSE DaysInMonth(year, NumberOf(month))))

Includes(array, e) == \E i \in DOMAIN array : array[i] = e

PendingErrors(state) ==
    IF ~IsYearFourDigits(state.year)
        THEN <<YearMessage>>
        ELSE IF ~IsDateValid(state.year, state.month, state.day)
                THEN <<InvalidMessage>>
                ELSE <<>>

\* validateDate as it would be if it showed what it computed at once.
ValidateDateShowsAtOnce(state) ==
    [state EXCEPT !.errors = PendingErrors(state),
                  !.pendingErrors = PendingErrors(state)]

ValidateDate(state) ==
    [state EXCEPT
        !.errors = SelectSeq(state.errors,
                             LAMBDA e : Includes(PendingErrors(state), e)),
        !.pendingErrors = PendingErrors(state)]

\* applyPendingErrors: the pending errors become the shown ones.
ApplyPendingErrors(state) ==
    [state EXCEPT
        !.errors = state.errors
                   \o SelectSeq(state.pendingErrors,
                                LAMBDA e : ~Includes(state.errors, e)),
        !.pendingErrors = <<>>]

SetSubfield(value, new) == IF new.defined THEN new.value ELSE value

RunReducer(state, action) ==
    IF action.type = "show-pending-errors"
        THEN ApplyPendingErrors(state)
        ELSE ValidateDate([state EXCEPT
                 !.year = SetSubfield(state.year, action.date.year),
                 !.month = SetSubfield(state.month, action.date.month),
                 !.day = SetSubfield(state.day, action.date.day)])

Optional(values) == {Undefined} \cup {Defined(v) : v \in values}

DateActions ==
    {[type |-> "show-pending-errors"]}
    \cup {[type |-> "set-date", date |-> d] :
            d \in [year : Optional(YearValues), month : Optional(MonthValues),
                   day : Optional(DayValues)]}

ShownErrors == {<<>>, <<ServerMessage>>, <<YearMessage>>, <<InvalidMessage>>}

DateInit ==
    /\ EngineInit
    /\ RankerIdle
    /\ HookIdle
    /\ MergeIdle
    /\ date \in [year : YearValues, month : MonthValues, day : DayValues,
                 errors : ShownErrors, pendingErrors : {<<>>}]
    /\ dLast = [action |-> [type |-> "none"]]

Dispatch(action) ==
    /\ date' = RunReducer(date, action)
    /\ dLast' = [action |-> action, before |-> date]
    /\ UNCHANGED <<engineVars, rankerVars, hookVars, mergeVars>>

DateNext == \E action \in DateActions : Dispatch(action)

SpecDate == DateInit /\ [][DateNext]_vars

SetOf(array) == {array[i] : i \in DOMAIN array}

\* C22: a set-date action changes only the sub-fields it supplies; after it
\* the shown errors are those of the previously shown ones that are also
\* pending now, so no new error shows before show-pending-errors and an error
\* that no longer applies goes at once; at most one error is pending, the
\* four-digit-year message before the invalid-date one.
C22_SetDateFiltersShownErrors ==
    dLast.action.type = "set-date" =>
        LET before == dLast.before
            supplied == dLast.action.date
        IN  /\ date.year = (IF supplied.year.defined
                                THEN supplied.year.value ELSE before.year)
            /\ date.month = (IF supplied.month.defined
                                THEN supplied.month.value ELSE before.month)
            /\ date.day = (IF supplied.day.defined
                                THEN supplied.day.value ELSE before.day)
            /\ SetOf(date.errors)
                   = SetOf(before.errors) \cap SetOf(date.pendingErrors)
            /\ Len(date.errors) <= Len(before.errors)
            /\ Len(date.pendingErrors) <= 1
            /\ (~IsYearFourDigits(date.year)
                    => date.pendingErrors = <<YearMessage>>)
            /\ (IsYearFourDigits(date.year)
                /\ ~IsDateValid(date.year, date.month, date.day)
                    => date.pendingErrors = <<InvalidMessage>>)
            /\ (IsYearFourDigits(date.year)
                /\ IsDateValid(date.year, date.month, date.day)
                    => date.pendingErrors = <<>>)

\* A shown year error goes as the year is corrected, and the invalid date
\* the correction leaves behind is pending, not shown.
C22_Witness ==
    /\ dLast.action.type = "set-date"
    /\ dLast.action.date.year.defined
    /\ ~dLast.action.date.month.defined
    /\ ~dLast.action.date.day.defined
    /\ dLast.before.errors = <<YearMessage>>
    /\ date.month # ""
    /\ date.errors = <<>>
    /\ date.pendingErrors = <<InvalidMessage>>


(***************************************************************************)
(* Sorted arrays: mergeSortedArrayInto and sortedIndexWith.  Indexes are   *)
(* the code's, counted from 0; array[i + 1] is the element at index i.     *)
(***************************************************************************)
MaxLen == 3          \* longest destination and source array

\* Items are <<key, tag>>; cmp orders by key alone, so two different items
\* can compare equal.
MergeItems == {<<1, 0>>, <<2, 0>>, <<2, 1>>, <<3, 0>>}

Cmp(a, b) == a[1] - b[1]

Arrays(maxLen) == UNION {[1..n -> MergeItems] : n \in 0..maxLen}

IsSorted(array) ==
    \A i \in 1..(Len(array) - 1) : Cmp(array[i], array[i + 1]) <= 0

SortedArrays(maxLen) == {array \in Arrays(maxLen) : IsSorted(array)}

\* The while loop of sortedIndexWith; middle and order start undefined.
RECURSIVE SortedIndexLoop(_, _, _, _, _, _)
SortedIndexLoop(array, value, low, high, middle, order) ==
    IF low < high
        THEN LET mid == (low + high) \div 2
                 ord == Cmp(array[mid + 1], value)
             IN  IF ord < 0
                     THEN SortedIndexLoop(array, value, mid + 1, high,
                                          Defined(mid), Defined(ord))
                     ELSE SortedIndexLoop(array, value, low, mid,
                                          Defined(mid), Defined(ord))
        ELSE [high |-> high, middle |-> middle, order |-> order]

OrderAt(array, value, end) ==
    IF end.middle.defined /\ end.high # end.middle.value
       /\ end.high < Len(array)
        THEN Defined(Cmp(array[end.high + 1], value))
        ELSE end.order

IsZero(order) == order.defined /\ order.value = 0

\* sortedIndexWith as it would be if it kept the order of the last probe.
SortedIndexWithLastProbe(array, value) ==
    LET end == SortedIndexLoop(array, value, 0, Len(array),
                               Undefined, Undefined)
    IN  <<end.high, IsZero(end.order)>>

SortedIndexWith(array, value) ==
    LET end == SortedIndexLoop(array, value, 0, Len(array),
                               Undefined, Undefined)
    IN  <<end.high, IsZero(OrderAt(array, value, end))>>

\* destination.splice(index, 0, value)
Splice(array, index, value) ==
    SubSeq(array, 1, index) \o <<value>> \o SubSeq(array, index + 1, Len(array))

MergeOne(destination, value, found) ==
    IF found[2] THEN destination ELSE Splice(destination, found[1], value)

RECURSIVE MergeFrom(_, _, _)
MergeFrom(destination, source, i) ==
    IF i < Len(source)
        THEN MergeFrom(MergeOne(destination, source[i + 1],
                                SortedIndexWith(destination, source[i + 1])),
                       source, i + 1)
        ELSE destination

MergeSortedArrayInto(destination, source) == MergeFrom(destination, source, 0)

MergeInit ==
    /\ EngineInit
    /\ RankerIdle
    /\ HookIdle
    /\ DateIdle
    /\ mDest \in SortedArrays(MaxLen)
    /\ mSrc \in Arrays(MaxLen)
    /\ mOut = Undefined

Merge ==
    /\ ~mOut.defined
    /\ mOut' = Defined(MergeSortedArrayInto(mDest, mSrc))
    /\ UNCHANGED <<mDest, mSrc>>
    /\ UNCHANGED <<engineVars, rankerVars, hookVars, dateVars>>

MergeNext == Merge

SpecMerge == MergeInit /\ [][MergeNext]_vars

EqualTo(array, value) == {i \in DOMAIN array : Cmp(array[i], value) = 0}

Copies(array, item) == Cardinality({i \in DOMAIN array : array[i] = item})

\* The lowest index at which value can be inserted with the order kept.
LowestIndex(array, value) ==
    CHOOSE i \in 0..Len(array) :
        /\ IsSorted(Splice(array, i, value))
        /\ \A j \in 0..(i - 1) : ~IsSorted(Splice(array, j, value))

SortedIndexIsRight(array) ==
    \A value \in MergeItems :
        SortedIndexWith(array, value)
            = <<LowestIndex(array, value), EqualTo(array, value) # {}>>

\* C23: after mergeSortedArrayInto the destination is sorted, keeps every
\* original element, holds an equal of every source item, and gained nothing
\* equal to an element it already had; sortedIndexWith gives the lowest
\* insertion index that keeps the order and says whether an equal of the
\* value is in the array (never for the empty array).
C23_MergeKeepsSortedAndUnique ==
    /\ SortedIndexIsRight(mDest)
    /\ SortedIndexWith(<<>>, <<2, 0>>) = <<0, FALSE>>
    /\ mOut.defined =>
        /\ IsSorted(mOut.value)
        /\ SortedIndexIsRight(mOut.value)
        /\ \A item \in MergeItems :
               Copies(mOut.value, item) >= Copies(mDest, item)
        /\ \A i \in DOMAIN mSrc : EqualTo(mOut.value, mSrc[i]) # {}
        /\ \A item \in MergeItems :
               Cardinality(EqualTo(mOut.value, item))
                   = IF EqualTo(mDest, item) # {}
                         THEN Cardinality(EqualTo(mDest, item))
                         ELSE IF EqualTo(mSrc, item) # {} THEN 1 ELSE 0

\* A merge that inserts one item, skips a source item equal to an original
\* one and skips the second of two equal source items.
C23_Witness ==
    /\ mOut.defined
    /\ mDest = <<(<<1, 0>>), (<<2, 0>>)>>
    /\ mSrc = <<(<<2, 1>>), (<<3, 0>>), (<<3, 0>>)>>
    /\ mOut.value = <<(<<1, 0>>), (<<2, 0>>), (<<3, 0>>)>>

====
